---- MODULE Spec2Model ----
(***************************************************************************)
(* RecaptchaSolver (src/recaptcha_solver.py): the cross-frame interaction  *)
(* state machine of solve_recaptcha and the retry loop of                  *)
(* solve_all_recaptchas, run against a Selenium driver whose every call    *)
(* answers nondeterministically (match / timeout / fault).                 *)
(*                                                                         *)
(* The driver is the environment: its state is the focused window, the    *)
(* focused browsing context and the number of open windows.  `trace` is    *)
(* the history of the driver calls and sleeps of the current attempt, in   *)
(* program order, as a mock driver would record them.                      *)
(* Wait budgets are in seconds, sleeps in milliseconds.                    *)
(***************************************************************************)
EXTENDS Integers, Sequences, FiniteSets

VARIABLES
    pc,               \* position of the single thread of control
    mode,             \* public operation the caller invoked
    timeout,          \* self.timeout, the budget of self.wait
    max_wait_time,    \* argument of solve_recaptcha
    max_attempts,     \* argument of solve_all_recaptchas
    attempts,         \* local counter of solve_all_recaptchas
    calls,            \* number of solve_recaptcha invocations started
    retry_sleeps,     \* number of inter-attempt time.sleep(2) performed
    tab_checks,       \* number of handle_extension_tabs invocations started
    nWindows,         \* len(driver.window_handles)
    window,           \* index of the focused window in window_handles (1 = first)
    focus,            \* focused browsing context of the driver
    checkbox_iframe,  \* local of solve_recaptcha
    challenge_iframe, \* local of solve_recaptcha
    sel,              \* index of the selector a fallback loop is at
    pending,          \* value the try block of solve_recaptcha is returning
    ret,              \* value solve_recaptcha handed to its caller
    cause,            \* why the attempt ended (diagnostic, what the log would say)
    result,           \* value handed to the caller of the public operation
    trace             \* driver calls and sleeps of the current attempt

vars == <<pc, mode, timeout, max_wait_time, max_attempts, attempts, calls,
          retry_sleeps, tab_checks, nWindows, window, focus, checkbox_iframe,
          challenge_iframe, sel, pending, ret, cause, result, trace>>

(***************************************************************************)
(* Bounds of the model.                                                    *)
(***************************************************************************)
MaxAttemptsBound == 3
MaxWindows == 3

(***************************************************************************)
(* Program constants.                                                      *)
(***************************************************************************)
DefaultTimeout == 20
TestTimeout == 10
DefaultMaxWait == 30
TestMaxWait == 25
DefaultMaxAttempts == 3
TabSettleMs == 500
PostClickDelayMs == 2000
BusterDelayMs == 5000
RetryDelayMs == 2000

\* self.CHALLENGE_IFRAME_SELECTORS and self.BUSTER_BUTTON_SELECTORS, by position
CHALLENGE_IFRAME_SELECTORS == <<"title_expires", "title_challenge", "src_bframe">>
BUSTER_BUTTON_SELECTORS == <<"div_help_button_holder", "help_button_holder", "class_help_button">>

\* a WebElement handle: the frame it denotes, the selector that matched, and
\* the solve_recaptcha invocation that located it
NoneElem == [frame |-> "none", by |-> 0, gen |-> 0]
Elem(f, s, g) == [frame |-> f, by |-> s, gen |-> g]

\* one recorded driver call or sleep
Ev(o, tg, s, g, r, t) == [op |-> o, target |-> tg, sel |-> s, gen |-> g, resp |-> r, t |-> t]

Log(e) == trace' = Append(trace, e)
LogSeq(es) == trace' = trace \o es

CtxOps == {"switch_window", "switch_frame", "default_content"}

Init ==
    /\ pc = "idle"
    /\ mode = "none"
    /\ timeout \in {TestTimeout, DefaultTimeout}
    /\ max_wait_time = DefaultMaxWait
    /\ max_attempts = DefaultMaxAttempts
    /\ attempts = 0
    /\ calls = 0
    /\ retry_sleeps = 0
    /\ tab_checks = 0
    /\ nWindows \in 1..MaxWindows
    /\ window \in 1..nWindows
    /\ focus \in {"top", "checkbox", "challenge"}
    /\ checkbox_iframe = NoneElem
    /\ challenge_iframe = NoneElem
    /\ sel = 0
    /\ pending = "none"
    /\ ret = "none"
    /\ cause = "none"
    /\ result = "none"
    /\ trace = <<>>

params == <<mode, timeout, max_wait_time, max_attempts>>
loopv == <<attempts, calls, retry_sleeps, tab_checks, result>>
driver == <<nWindows, window, focus>>
locals == <<checkbox_iframe, challenge_iframe, sel>>

(***************************************************************************)
(* Control transfer inside solve_recaptcha.                                *)
(***************************************************************************)
\* fall through to the next statement of the try block
Goto(p) == pc' = p /\ UNCHANGED <<pending, ret, cause>>

\* a `return val` inside the try block: the finally clause runs next
Leave(val, why) ==
    /\ pc' = "finally"
    /\ pending' = val
    /\ cause' = why
    /\ UNCHANGED ret

\* mutant: the handler is missing and the fault reaches the caller
ExceptPropagates == Leave("raise", "fault")

\* a driver fault propagating out of the try block: except Exception, return False
Except == Leave("false", "fault")

\* mutant: the frame handles are kept on the solver across invocations
BeginAttemptKeepsHandles ==
    /\ pc' = "het_check"
    /\ calls' = calls + 1
    /\ sel' = 0
    /\ pending' = "none"
    /\ ret' = "none"
    /\ cause' = "none"
    /\ trace' = <<>>
    /\ UNCHANGED <<checkbox_iframe, challenge_iframe>>

\* mutant: the attempt starts at the lookup, handle_extension_tabs is not called
BeginAttemptSkipsTabs ==
    /\ pc' = "find_cb"
    /\ calls' = calls + 1
    /\ checkbox_iframe' = NoneElem
    /\ challenge_iframe' = NoneElem
    /\ sel' = 0
    /\ pending' = "none"
    /\ ret' = "none"
    /\ cause' = "none"
    /\ trace' = <<>>

\* entry of solve_recaptcha: fresh locals, nothing recorded yet
BeginAttempt ==
    /\ pc' = "het_check"
    /\ calls' = calls + 1
    /\ checkbox_iframe' = NoneElem
    /\ challenge_iframe' = NoneElem
    /\ sel' = 0
    /\ pending' = "none"
    /\ ret' = "none"
    /\ cause' = "none"
    /\ trace' = <<>>

(***************************************************************************)
(* The caller invokes one of the two public operations.                    *)
(***************************************************************************)
CallSolveRecaptcha ==
    /\ pc = "idle"
    /\ mode' = "solve_recaptcha"
    /\ max_wait_time' \in {TestMaxWait, DefaultMaxWait}
    /\ BeginAttempt
    /\ UNCHANGED <<timeout, max_attempts, attempts, retry_sleeps, tab_checks, result, driver>>

CallSolveAllRecaptchas ==
    /\ pc = "idle"
    /\ mode' = "solve_all_recaptchas"
    /\ max_attempts' \in -1..MaxAttemptsBound
    /\ attempts' = 0
    /\ pc' = "all_loop"
    /\ UNCHANGED <<timeout, max_wait_time, calls, retry_sleeps, tab_checks, result, driver,
                   locals, pending, ret, cause, trace>>

(***************************************************************************)
(* handle_extension_tabs                                                   *)
(***************************************************************************)
\* mutant: the test is `>= 1`, so a single tab is switched to as well
HandleExtensionTabsCheckOffByOne ==
    /\ pc = "het_check"
    /\ \E r \in {"ok", "fault"} :
        /\ Log(Ev("window_handles", "len", 0, calls, r, 0))
        /\ IF r = "fault" THEN Except
           ELSE Goto(IF nWindows >= 1 THEN "het_switch" ELSE "find_cb")
    /\ tab_checks' = tab_checks + 1
    /\ UNCHANGED <<params, attempts, calls, retry_sleeps, result, driver, locals>>

HandleExtensionTabsCheck ==
    /\ pc = "het_check"
    /\ \E r \in {"ok", "fault"} :
        /\ Log(Ev("window_handles", "len", 0, calls, r, 0))
        /\ IF r = "fault" THEN Except
           ELSE Goto(IF nWindows > 1 THEN "het_switch" ELSE "find_cb")
    /\ tab_checks' = tab_checks + 1
    /\ UNCHANGED <<params, attempts, calls, retry_sleeps, result, driver, locals>>

HandleExtensionTabsSwitch ==
    /\ pc = "het_switch"
    /\ \E r \in {"ok", "fault_handles", "fault"} :
        CASE r = "ok" ->
               /\ LogSeq(<<Ev("window_handles", "first", 1, calls, "ok", 0),
                           Ev("switch_window", "window", 1, calls, "ok", 0),
                           Ev("sleep", "tab_settle", 0, calls, "ok", TabSettleMs)>>)
               /\ window' = 1
               /\ focus' = "top"
               /\ Goto("find_cb")
          [] r = "fault_handles" ->
               /\ Log(Ev("window_handles", "first", 1, calls, "fault", 0))
               /\ Except
               /\ UNCHANGED <<window, focus>>
          [] r = "fault" ->
               /\ LogSeq(<<Ev("window_handles", "first", 1, calls, "ok", 0),
                           Ev("switch_window", "window", 1, calls, "fault", 0)>>)
               /\ Except
               /\ UNCHANGED <<window, focus>>
    /\ UNCHANGED <<params, loopv, nWindows, locals>>

(***************************************************************************)
(* find_recaptcha_checkbox_iframe and the switch into the frame            *)
(***************************************************************************)
\* mutant: TimeoutException is not caught by find_recaptcha_checkbox_iframe
FindRecaptchaCheckboxIframeTimeoutEscapes ==
    /\ pc = "find_cb"
    /\ \E r \in {"match", "timeout", "fault"} :
        /\ Log(Ev("wait_present", "checkbox_iframe", 1, calls, r, timeout))
        /\ IF r = "match"
           THEN /\ checkbox_iframe' = Elem("checkbox", 1, calls)
                /\ Goto("switch_cb")
           ELSE /\ Except
                /\ UNCHANGED checkbox_iframe
    /\ UNCHANGED <<params, loopv, driver, challenge_iframe, sel>>

\* mutant: the `if not checkbox_iframe` test is missing
FindRecaptchaCheckboxIframeUnchecked ==
    /\ pc = "find_cb"
    /\ \E r \in {"match", "timeout", "fault"} :
        /\ Log(Ev("wait_present", "checkbox_iframe", 1, calls, r, timeout))
        /\ CASE r = "match" ->
                  /\ checkbox_iframe' = Elem("checkbox", 1, calls)
                  /\ Goto("switch_cb")
             [] r = "timeout" ->
                  /\ Goto("switch_cb")
                  /\ UNCHANGED checkbox_iframe
             [] r = "fault" ->
                  /\ Except
                  /\ UNCHANGED checkbox_iframe
    /\ UNCHANGED <<params, loopv, driver, challenge_iframe, sel>>

FindRecaptchaCheckboxIframe ==
    /\ pc = "find_cb"
    /\ \E r \in {"match", "timeout", "fault"} :
        /\ Log(Ev("wait_present", "checkbox_iframe", 1, calls, r, timeout))
        /\ CASE r = "match" ->
                  /\ checkbox_iframe' = Elem("checkbox", 1, calls)
                  /\ Goto("switch_cb")
             [] r = "timeout" ->
                  /\ Leave("false", "no_widget")
                  /\ UNCHANGED checkbox_iframe
             [] r = "fault" ->
                  /\ Except
                  /\ UNCHANGED checkbox_iframe
    /\ UNCHANGED <<params, loopv, driver, challenge_iframe, sel>>

\* driver.switch_to.frame(el): a fault leaves the focus where it was
SwitchToFrame(el, next) ==
    /\ \E r \in {"ok", "fault"} :
        /\ Log(Ev("switch_frame", el.frame, el.by, el.gen, r, 0))
        /\ IF r = "ok"
           THEN focus' = el.frame /\ Goto(next)
           ELSE UNCHANGED focus /\ Except
    /\ UNCHANGED <<params, loopv, nWindows, window, checkbox_iframe, challenge_iframe>>

\* driver.switch_to.default_content() inside the try block
SwitchToDefaultContent(next) ==
    /\ \E r \in {"ok", "fault"} :
        /\ Log(Ev("default_content", "top", 0, calls, r, 0))
        /\ IF r = "ok"
           THEN focus' = "top" /\ Goto(next)
           ELSE UNCHANGED focus /\ Except
    /\ UNCHANGED <<params, loopv, nWindows, window, checkbox_iframe, challenge_iframe>>

SwitchToCheckboxIframe ==
    /\ pc = "switch_cb"
    /\ SwitchToFrame(checkbox_iframe, "cb_wait")
    /\ UNCHANGED sel

(***************************************************************************)
(* click_recaptcha_checkbox, the settle delay and is_recaptcha_solved      *)
(***************************************************************************)
\* mutant: the click is dispatched although the control never became clickable
ClickRecaptchaCheckboxWaitClicksAnyway ==
    /\ pc = "cb_wait"
    /\ \E r \in {"match", "timeout", "fault"} :
        /\ Log(Ev("wait_clickable", "checkbox", 1, calls, r, timeout))
        /\ IF r = "fault" THEN Except ELSE Goto("cb_click")
    /\ UNCHANGED <<params, loopv, driver, locals>>

ClickRecaptchaCheckboxWait ==
    /\ pc = "cb_wait"
    /\ \E r \in {"match", "timeout", "fault"} :
        /\ Log(Ev("wait_clickable", "checkbox", 1, calls, r, timeout))
        /\ CASE r = "match" -> Goto("cb_click")
             [] r = "timeout" -> Leave("false", "not_clickable")
             [] r = "fault" -> Except
    /\ UNCHANGED <<params, loopv, driver, locals>>

\* mutant: the settle delay after the click is missing
ClickRecaptchaCheckboxClickNoSettle ==
    /\ pc = "cb_click"
    /\ \E r \in {"ok", "timeout", "fault"} :
        /\ Log(Ev("click", "checkbox", 1, calls, r, 0))
        /\ CASE r = "ok" -> Goto("is_solved")
             [] r = "timeout" -> Leave("false", "not_clickable")
             [] r = "fault" -> Except
    /\ UNCHANGED <<params, loopv, driver, locals>>

ClickRecaptchaCheckboxClick ==
    /\ pc = "cb_click"
    /\ \E r \in {"ok", "timeout", "fault"} :
        CASE r = "ok" ->
               /\ LogSeq(<<Ev("click", "checkbox", 1, calls, "ok", 0),
                           Ev("sleep", "post_click", 0, calls, "ok", PostClickDelayMs)>>)
               /\ Goto("is_solved")
          [] r = "timeout" ->
               /\ Log(Ev("click", "checkbox", 1, calls, r, 0))
               /\ Leave("false", "not_clickable")
          [] r = "fault" ->
               /\ Log(Ev("click", "checkbox", 1, calls, r, 0))
               /\ Except
    /\ UNCHANGED <<params, loopv, driver, locals>>

\* mutant: NoSuchElementException is not caught by is_recaptcha_solved
IsRecaptchaSolvedAbsentEscapes ==
    /\ pc = "is_solved"
    /\ \E r \in {"match", "absent", "fault"} :
        /\ Log(Ev("find_element", "checked", 1, calls, r, 0))
        /\ IF r = "match" THEN Leave("true", "already_solved") ELSE Except
    /\ UNCHANGED <<params, loopv, driver, locals>>

\* mutant: the result of the solved check is ignored
IsRecaptchaSolvedIgnored ==
    /\ pc = "is_solved"
    /\ \E r \in {"match", "absent", "fault"} :
        /\ Log(Ev("find_element", "checked", 1, calls, r, 0))
        /\ IF r = "fault" THEN Except ELSE Goto("to_top")
    /\ UNCHANGED <<params, loopv, driver, locals>>

IsRecaptchaSolved ==
    /\ pc = "is_solved"
    /\ \E r \in {"match", "absent", "fault"} :
        /\ Log(Ev("find_element", "checked", 1, calls, r, 0))
        /\ CASE r = "match" -> Leave("true", "already_solved")
             [] r = "absent" -> Goto("to_top")
             [] r = "fault" -> Except
    /\ UNCHANGED <<params, loopv, driver, locals>>

(***************************************************************************)
(* find_challenge_iframe, reached with the solved check negative           *)
(***************************************************************************)
\* mutant: the challenge lookup starts without leaving the checkbox context
SwitchToTopForChallengeSkipped ==
    /\ pc = "to_top"
    /\ pc' = "find_ch"
    /\ sel' = 1
    /\ UNCHANGED <<params, loopv, driver, checkbox_iframe, challenge_iframe,
                   pending, ret, cause, trace>>

SwitchToTopForChallenge ==
    /\ pc = "to_top"
    /\ SwitchToDefaultContent("find_ch")
    /\ sel' = 1

\* mutant: the `if not challenge_iframe` test is missing
FindChallengeIframeUnchecked ==
    /\ pc = "find_ch"
    /\ \E r \in {"match", "timeout", "fault"} :
        /\ Log(Ev("wait_present", "challenge_iframe", sel, calls, r, timeout))
        /\ CASE r = "match" ->
                  /\ challenge_iframe' = Elem("challenge", sel, calls)
                  /\ Goto("switch_ch")
                  /\ UNCHANGED sel
             [] r = "timeout" ->
                  /\ IF sel < Len(CHALLENGE_IFRAME_SELECTORS)
                     THEN sel' = sel + 1 /\ Goto("find_ch")
                     ELSE UNCHANGED sel /\ Goto("switch_ch")
                  /\ UNCHANGED challenge_iframe
             [] r = "fault" ->
                  /\ Except
                  /\ UNCHANGED <<challenge_iframe, sel>>
    /\ UNCHANGED <<params, loopv, driver, checkbox_iframe>>

\* mutant: TimeoutException is not caught inside the selector loop
FindChallengeIframeTimeoutEscapes ==
    /\ pc = "find_ch"
    /\ \E r \in {"match", "timeout", "fault"} :
        /\ Log(Ev("wait_present", "challenge_iframe", sel, calls, r, timeout))
        /\ IF r = "match"
           THEN /\ challenge_iframe' = Elem("challenge", sel, calls)
                /\ Goto("switch_ch")
           ELSE /\ Except
                /\ UNCHANGED challenge_iframe
    /\ UNCHANGED <<params, loopv, driver, checkbox_iframe, sel>>

FindChallengeIframe ==
    /\ pc = "find_ch"
    /\ \E r \in {"match", "timeout", "fault"} :
        /\ Log(Ev("wait_present", "challenge_iframe", sel, calls, r, timeout))
        /\ CASE r = "match" ->
                  /\ challenge_iframe' = Elem("challenge", sel, calls)
                  /\ Goto("switch_ch")
                  /\ UNCHANGED sel
             [] r = "timeout" ->
                  /\ IF sel < Len(CHALLENGE_IFRAME_SELECTORS)
                     THEN sel' = sel + 1 /\ Goto("find_ch")
                     ELSE UNCHANGED sel /\ Leave("false", "no_challenge")
                  /\ UNCHANGED challenge_iframe
             [] r = "fault" ->
                  /\ Except
                  /\ UNCHANGED <<challenge_iframe, sel>>
    /\ UNCHANGED <<params, loopv, driver, checkbox_iframe>>

SwitchToChallengeIframe ==
    /\ pc = "switch_ch"
    /\ SwitchToFrame(challenge_iframe, "bb_wait")
    /\ sel' = 1

(***************************************************************************)
(* activate_buster_extension                                               *)
(***************************************************************************)
\* mutant: the False of activate_buster_extension is ignored by its caller
NextBusterSelectorIgnored ==
    IF sel < Len(BUSTER_BUTTON_SELECTORS)
    THEN sel' = sel + 1 /\ Goto("bb_wait")
    ELSE UNCHANGED sel /\ Goto("to_top2")

\* `continue` of the selector loop, or the `return False` after it
NextBusterSelector ==
    IF sel < Len(BUSTER_BUTTON_SELECTORS)
    THEN sel' = sel + 1 /\ Goto("bb_wait")
    ELSE UNCHANGED sel /\ Leave("false", "activation_failed")

\* mutant: the fixed delay before the click is missing
ActivateBusterExtensionWaitNoDelay ==
    /\ pc = "bb_wait"
    /\ \E r \in {"match", "timeout", "fault"} :
        /\ Log(Ev("wait_clickable", "buster", sel, calls, r, timeout))
        /\ CASE r = "match" -> Goto("bb_click") /\ UNCHANGED sel
             [] r = "timeout" -> NextBusterSelector
             [] r = "fault" -> Except /\ UNCHANGED sel
    /\ UNCHANGED <<params, loopv, driver, checkbox_iframe, challenge_iframe>>

ActivateBusterExtensionWait ==
    /\ pc = "bb_wait"
    /\ \E r \in {"match", "timeout", "fault"} :
        CASE r = "match" ->
               /\ LogSeq(<<Ev("wait_clickable", "buster", sel, calls, r, timeout),
                           Ev("sleep", "pre_activation", 0, calls, "ok", BusterDelayMs)>>)
               /\ Goto("bb_click")
               /\ UNCHANGED sel
          [] r = "timeout" ->
               /\ Log(Ev("wait_clickable", "buster", sel, calls, r, timeout))
               /\ NextBusterSelector
          [] r = "fault" ->
               /\ Log(Ev("wait_clickable", "buster", sel, calls, r, timeout))
               /\ Except
               /\ UNCHANGED sel
    /\ UNCHANGED <<params, loopv, driver, checkbox_iframe, challenge_iframe>>

ActivateBusterExtensionClick ==
    /\ pc = "bb_click"
    /\ \E r \in {"ok", "timeout", "fault"} :
        /\ Log(Ev("click", "buster", sel, calls, r, 0))
        /\ CASE r = "ok" -> Goto("to_top2") /\ UNCHANGED sel
             [] r = "timeout" -> NextBusterSelector
             [] r = "fault" -> Except /\ UNCHANGED sel
    /\ UNCHANGED <<params, loopv, driver, checkbox_iframe, challenge_iframe>>

(***************************************************************************)
(* back to the checkbox context, wait_for_solution                         *)
(***************************************************************************)
\* mutant: the checkbox frame is entered from inside the challenge context
SwitchToTopForWaitSkipped ==
    /\ pc = "to_top2"
    /\ pc' = "switch_cb2"
    /\ UNCHANGED <<params, loopv, driver, locals, pending, ret, cause, trace>>

SwitchToTopForWait ==
    /\ pc = "to_top2"
    /\ SwitchToDefaultContent("switch_cb2")
    /\ UNCHANGED sel

\* mutant: the completion wait starts without re-entering the checkbox frame
SwitchBackToCheckboxIframeSkipped ==
    /\ pc = "switch_cb2"
    /\ pc' = "wait_sol"
    /\ UNCHANGED <<params, loopv, driver, locals, pending, ret, cause, trace>>

SwitchBackToCheckboxIframe ==
    /\ pc = "switch_cb2"
    /\ SwitchToFrame(checkbox_iframe, "wait_sol")
    /\ UNCHANGED sel

\* mutant: the completion wait reuses self.wait, whose budget is self.timeout
WaitForSolutionUsesSelfWait ==
    /\ pc = "wait_sol"
    /\ \E r \in {"match", "timeout", "fault"} :
        /\ Log(Ev("wait_present", "checked", 1, calls, r, timeout))
        /\ CASE r = "match" -> Leave("true", "solved")
             [] r = "timeout" -> Leave("false", "timed_out")
             [] r = "fault" -> Except
    /\ UNCHANGED <<params, loopv, driver, locals>>

\* mutant: the timeout of the completion wait is reported as solved
WaitForSolutionTimeoutIsSuccess ==
    /\ pc = "wait_sol"
    /\ \E r \in {"match", "timeout", "fault"} :
        /\ Log(Ev("wait_present", "checked", 1, calls, r, max_wait_time))
        /\ CASE r = "match" -> Leave("true", "solved")
             [] r = "timeout" -> Leave("true", "timed_out")
             [] r = "fault" -> Except
    /\ UNCHANGED <<params, loopv, driver, locals>>

WaitForSolution ==
    /\ pc = "wait_sol"
    /\ \E r \in {"match", "timeout", "fault"} :
        /\ Log(Ev("wait_present", "checked", 1, calls, r, max_wait_time))
        /\ CASE r = "match" -> Leave("true", "solved")
             [] r = "timeout" -> Leave("false", "timed_out")
             [] r = "fault" -> Except
    /\ UNCHANGED <<params, loopv, driver, locals>>

(***************************************************************************)
(* the finally clause of solve_recaptcha and the return to the caller      *)
(***************************************************************************)
\* mutant: a fault of the restoring switch replaces the outcome by False
FinallyFaultMasks ==
    /\ pc = "finally"
    /\ \E r \in {"ok", "fault"} :
        /\ Log(Ev("default_content", "top", 0, calls, r, 0))
        /\ focus' = IF r = "ok" THEN "top" ELSE focus
        /\ ret' = IF r = "ok" THEN pending ELSE "false"
    /\ pc' = "returned"
    /\ UNCHANGED <<params, loopv, nWindows, window, locals, pending, cause>>

\* mutant: the finally clause does not restore the top-level context
FinallyNoRestore ==
    /\ pc = "finally"
    /\ ret' = pending
    /\ pc' = "returned"
    /\ UNCHANGED <<params, loopv, driver, locals, pending, cause, trace>>

Finally ==
    /\ pc = "finally"
    /\ \E r \in {"ok", "fault"} :
        /\ Log(Ev("default_content", "top", 0, calls, r, 0))
        /\ focus' = IF r = "ok" THEN "top" ELSE focus
    /\ ret' = pending
    /\ pc' = "returned"
    /\ UNCHANGED <<params, loopv, nWindows, window, locals, pending, cause>>

ReturnSolveRecaptcha ==
    /\ pc = "returned"
    /\ mode = "solve_recaptcha"
    /\ result' = ret
    /\ pc' = "done"
    /\ UNCHANGED <<params, attempts, calls, retry_sleeps, tab_checks, driver, locals,
                   pending, ret, cause, trace>>

(***************************************************************************)
(* solve_all_recaptchas                                                    *)
(***************************************************************************)
\* mutant: the loop test is `attempts <= max_attempts`
SolveAllLoopOffByOne ==
    /\ pc = "all_loop"
    /\ IF attempts <= max_attempts
       THEN /\ attempts' = attempts + 1
            /\ max_wait_time' = DefaultMaxWait
            /\ BeginAttempt
            /\ UNCHANGED result
       ELSE /\ result' = "false"
            /\ pc' = "done"
            /\ UNCHANGED <<max_wait_time, attempts, calls, locals, pending, ret, cause, trace>>
    /\ UNCHANGED <<mode, timeout, max_attempts, retry_sleeps, tab_checks, driver>>

\* mutant: the `return False` after the loop is missing, the call yields None
SolveAllLoopNoReturn ==
    /\ pc = "all_loop"
    /\ IF attempts < max_attempts
       THEN /\ attempts' = attempts + 1
            /\ max_wait_time' = DefaultMaxWait
            /\ BeginAttempt
            /\ UNCHANGED result
       ELSE /\ result' = "none"
            /\ pc' = "done"
            /\ UNCHANGED <<max_wait_time, attempts, calls, locals, pending, ret, cause, trace>>
    /\ UNCHANGED <<mode, timeout, max_attempts, retry_sleeps, tab_checks, driver>>

SolveAllLoop ==
    /\ pc = "all_loop"
    /\ IF attempts < max_attempts
       THEN /\ attempts' = attempts + 1
            /\ max_wait_time' = DefaultMaxWait
            /\ BeginAttempt
            /\ UNCHANGED result
       ELSE /\ result' = "false"
            /\ pc' = "done"
            /\ UNCHANGED <<max_wait_time, attempts, calls, locals, pending, ret, cause, trace>>
    /\ UNCHANGED <<mode, timeout, max_attempts, retry_sleeps, tab_checks, driver>>

\* mutant: the retry delay is also slept after the last attempt
SolveAllAfterAttemptAlwaysSleeps ==
    /\ pc = "returned"
    /\ mode = "solve_all_recaptchas"
    /\ CASE ret = "true" ->
              /\ result' = "true"
              /\ pc' = "done"
              /\ UNCHANGED retry_sleeps
         [] ret = "false" ->
              /\ retry_sleeps' = retry_sleeps + 1
              /\ pc' = "all_loop"
              /\ UNCHANGED result
         [] OTHER ->
              /\ result' = "raise"
              /\ pc' = "done"
              /\ UNCHANGED retry_sleeps
    /\ UNCHANGED <<params, attempts, calls, tab_checks, driver, locals, pending, ret, cause, trace>>

\* mutant: an attempt that found no widget is not retried
SolveAllAfterAttemptGivesUpOnNoWidget ==
    /\ pc = "returned"
    /\ mode = "solve_all_recaptchas"
    /\ CASE ret = "true" ->
              /\ result' = "true"
              /\ pc' = "done"
              /\ UNCHANGED retry_sleeps
         [] ret = "false" /\ cause = "no_widget" ->
              /\ result' = "false"
              /\ pc' = "done"
              /\ UNCHANGED retry_sleeps
         [] ret = "false" /\ cause # "no_widget" ->
              /\ retry_sleeps' = IF attempts < max_attempts
                                 THEN retry_sleeps + 1 ELSE retry_sleeps
              /\ pc' = "all_loop"
              /\ UNCHANGED result
         [] OTHER ->
              /\ result' = "raise"
              /\ pc' = "done"
              /\ UNCHANGED retry_sleeps
    /\ UNCHANGED <<params, attempts, calls, tab_checks, driver, locals, pending, ret, cause, trace>>

\* mutant: an attempt that ended on a driver fault ends the retry loop
SolveAllAfterAttemptStopsOnFault ==
    /\ pc = "returned"
    /\ mode = "solve_all_recaptchas"
    /\ CASE ret = "true" ->
              /\ result' = "true"
              /\ pc' = "done"
              /\ UNCHANGED retry_sleeps
         [] ret = "false" /\ cause = "fault" ->
              /\ result' = "false"
              /\ pc' = "done"
              /\ UNCHANGED retry_sleeps
         [] ret = "false" /\ cause # "fault" ->
              /\ retry_sleeps' = IF attempts < max_attempts
                                 THEN retry_sleeps + 1 ELSE retry_sleeps
              /\ pc' = "all_loop"
              /\ UNCHANGED result
         [] OTHER ->
              /\ result' = "raise"
              /\ pc' = "done"
              /\ UNCHANGED retry_sleeps
    /\ UNCHANGED <<params, attempts, calls, tab_checks, driver, locals, pending, ret, cause, trace>>

SolveAllAfterAttempt ==
    /\ pc = "returned"
    /\ mode = "solve_all_recaptchas"
    /\ CASE ret = "true" ->
              /\ result' = "true"
              /\ pc' = "done"
              /\ UNCHANGED retry_sleeps
         [] ret = "false" ->
              /\ retry_sleeps' = IF attempts < max_attempts
                                 THEN retry_sleeps + 1 ELSE retry_sleeps
              /\ pc' = "all_loop"
              /\ UNCHANGED result
         [] OTHER ->
              /\ result' = "raise"
              /\ pc' = "done"
              /\ UNCHANGED retry_sleeps
    /\ UNCHANGED <<params, attempts, calls, tab_checks, driver, locals, pending, ret, cause, trace>>

\* what `return True` / `return False` of solve_all_recaptchas hands back:
\* the success flag and nothing else (the attempt count is only logged)
SolveAllReturned == [success |-> result]

Next ==
    \/ CallSolveRecaptcha
    \/ CallSolveAllRecaptchas
    \/ HandleExtensionTabsCheck
    \/ HandleExtensionTabsSwitch
    \/ FindRecaptchaCheckboxIframe
    \/ SwitchToCheckboxIframe
    \/ ClickRecaptchaCheckboxWait
    \/ ClickRecaptchaCheckboxClick
    \/ IsRecaptchaSolved
    \/ SwitchToTopForChallenge
    \/ FindChallengeIframe
    \/ SwitchToChallengeIframe
    \/ ActivateBusterExtensionWait
    \/ ActivateBusterExtensionClick
    \/ SwitchToTopForWait
    \/ SwitchBackToCheckboxIframe
    \/ WaitForSolution
    \/ Finally
    \/ ReturnSolveRecaptcha
    \/ SolveAllLoop
    \/ SolveAllAfterAttempt

Spec == Init /\ [][Next]_vars

\* one thread runs the calls to completion: every wait and sleep returns, so a
\* step that can be taken is eventually taken
FairSpec == Spec /\ WF_vars(Next)

(***************************************************************************)
(* Reading the trace of the current attempt.                               *)
(***************************************************************************)
\* solve_recaptcha has been invoked and has handed its value to its caller
Exited == calls > 0 /\ pc \in {"returned", "all_loop", "done"}

Is(e, o, tg) == e.op = o /\ e.target = tg
Has(o, tg) == \E i \in DOMAIN trace : Is(trace[i], o, tg)
HasResp(o, tg, r) == \E i \in DOMAIN trace : Is(trace[i], o, tg) /\ trace[i].resp = r
CtxIdx == {i \in DOMAIN trace : trace[i].op \in CtxOps}
IsLastCtx(i) == i \in CtxIdx /\ \A j \in CtxIdx : j <= i

\* a fault raised by a driver call made inside the try block
FaultInTry == \E i \in DOMAIN trace : i < Len(trace) /\ trace[i].resp = "fault"

\* stages that follow the solved check: challenge lookup, activation, completion wait
ChallengeStageOps ==
    {i \in DOMAIN trace :
        \/ trace[i].target \in {"challenge_iframe", "challenge", "buster"}
        \/ Is(trace[i], "wait_present", "checked")
        \/ Is(trace[i], "sleep", "pre_activation")}

(***************************************************************************)
(* C1: on any exit of solve_recaptcha the active context is top-level and  *)
(* default_content is the last context operation of the attempt.           *)
(* As stated it fails when the restoring default_content itself faults.    *)
(***************************************************************************)
C1_TopLevelOnEveryExit ==
    Exited =>
        /\ focus = "top"
        /\ \E i \in DOMAIN trace : IsLastCtx(i) /\ trace[i].op = "default_content"

\* C1 amended: default_content is the last driver call and the last context
\* operation of every attempt, and the context is top-level afterwards
\* whenever that call did not itself fault.
C1_RestoreIsLastContextOp ==
    Exited =>
        /\ trace # <<>>
        /\ IsLastCtx(Len(trace))
        /\ trace[Len(trace)].op = "default_content"
        /\ trace[Len(trace)].resp = "ok" => focus = "top"

\* a fault struck inside a nested context and the exit restored top level
C1_Witness ==
    /\ Exited
    /\ cause = "fault"
    /\ HasResp("switch_frame", "challenge", "ok")
    /\ trace[Len(trace)].resp = "ok"
    /\ focus = "top"

(***************************************************************************)
(* C2: solve_recaptcha never raises; a driver fault at any step of the     *)
(* attempt ends the call by returning false.                               *)
(***************************************************************************)
C2_NeverRaises ==
    Exited =>
        /\ ret \in {"true", "false"}
        /\ FaultInTry => ret = "false"
        /\ (mode = "solve_recaptcha" /\ pc = "done") => result = ret

\* the deepest step, the completion wait, faulted and false came back
C2_Witness ==
    /\ pc = "done"
    /\ mode = "solve_recaptcha"
    /\ HasResp("wait_present", "checked", "fault")
    /\ result = "false"

(***************************************************************************)
(* C3: a verified marker at the solved check after the click makes         *)
(* solve_recaptcha return true with no challenge lookup, no activation and *)
(* no completion wait in that attempt.                                     *)
(***************************************************************************)
C3_AlreadySolvedShortCircuits ==
    HasResp("find_element", "checked", "match") =>
        /\ ChallengeStageOps = {}
        /\ \E i, j \in DOMAIN trace :
              /\ i < j
              /\ Is(trace[i], "click", "checkbox") /\ trace[i].resp = "ok"
              /\ Is(trace[j], "find_element", "checked")
        /\ pending = "true"
        /\ Exited => ret = "true"
        /\ pc = "done" => result = "true"

C3_Witness ==
    /\ pc = "done"
    /\ HasResp("find_element", "checked", "match")
    /\ result = "true"
    /\ cause = "already_solved"

(***************************************************************************)
(* C4: no checkbox context within the wait budget: solve_recaptcha returns *)
(* false and no later stage is attempted.                                  *)
(***************************************************************************)
C4_NoWidgetFastFail ==
    HasResp("wait_present", "checkbox_iframe", "timeout") =>
        /\ \A i \in DOMAIN trace :
              /\ trace[i].op \notin {"switch_frame", "click", "find_element", "wait_clickable"}
              /\ ~Is(trace[i], "sleep", "post_click")
              /\ i \notin ChallengeStageOps
        /\ \A i, j \in DOMAIN trace :
              (Is(trace[i], "wait_present", "checkbox_iframe") /\ i < j)
                  => (j = Len(trace) /\ trace[j].op = "default_content")
        /\ pending = "false"
        /\ Exited => ret = "false"

C4_Witness ==
    /\ pc = "done"
    /\ mode = "solve_recaptcha"
    /\ cause = "no_widget"
    /\ result = "false"
    /\ Len(trace) = 3

(***************************************************************************)
(* C5: if attempts 1..k-1 fail and attempt k succeeds, solve_all_recaptchas*)
(* returns true after exactly k attempts and exactly k-1 inter-attempt     *)
(* delays, one before each attempt but the first, none after the success.  *)
(***************************************************************************)
InAttempt == pc \notin {"idle", "all_loop", "done"}

C5_SuccessAfterExactlyKAttempts ==
    mode = "solve_all_recaptchas" =>
        /\ calls = attempts
        /\ InAttempt => retry_sleeps = calls - 1
        /\ (pc = "done" /\ result = "true") =>
              /\ ret = "true"
              /\ calls >= 1 /\ calls <= max_attempts
              /\ retry_sleeps = calls - 1
        /\ pc = "done" => retry_sleeps = (IF calls = 0 THEN 0 ELSE calls - 1)

\* two failures, then a success on the third and last attempt
C5_Witness ==
    /\ mode = "solve_all_recaptchas"
    /\ pc = "done"
    /\ result = "true"
    /\ max_attempts = 3
    /\ calls = 3
    /\ retry_sleeps = 2

(***************************************************************************)
(* C6: when every attempt fails, whatever the causes, solve_all_recaptchas *)
(* returns false after exactly max_attempts attempts (none when            *)
(* max_attempts is not positive).                                          *)
(***************************************************************************)
AttemptsDue == IF max_attempts > 0 THEN max_attempts ELSE 0

C6_FailureAfterExactlyMaxAttempts ==
    mode = "solve_all_recaptchas" =>
        /\ calls <= AttemptsDue
        /\ (pc = "done" /\ result # "true") =>
              /\ result = "false"
              /\ calls = AttemptsDue
              /\ calls > 0 => ret = "false"
        /\ (pc = "all_loop" /\ calls > 0) => ret = "false"

\* three failed attempts, the last of them on a missing widget
C6_Witness ==
    /\ mode = "solve_all_recaptchas"
    /\ pc = "done"
    /\ result = "false"
    /\ max_attempts = 3
    /\ calls = 3
    /\ cause = "no_widget"

(***************************************************************************)
(* C7: handle_extension_tabs switches no window when one top-level context *)
(* exists, and with N > 1 makes exactly one switch, to the first handle.   *)
(***************************************************************************)
WindowSwitches == {i \in DOMAIN trace : trace[i].op = "switch_window"}

\* handle_extension_tabs has returned normally
TabsHandled == InAttempt /\ pc \notin {"het_check", "het_switch"} /\ ~HasResp("window_handles", "len", "fault")
                         /\ ~HasResp("window_handles", "first", "fault")
                         /\ ~HasResp("switch_window", "window", "fault")

C7_OneSwitchToFirstTab ==
    /\ Cardinality(WindowSwitches) <= 1
    /\ nWindows = 1 => WindowSwitches = {}
    /\ \A i \in WindowSwitches : trace[i].sel = 1
    /\ TabsHandled =>
          /\ Cardinality(WindowSwitches) = (IF nWindows > 1 THEN 1 ELSE 0)
          /\ nWindows > 1 =>
                /\ window = 1
                /\ HasResp("sleep", "tab_settle", "ok")

C7_Witness ==
    /\ pc = "find_cb"
    /\ nWindows = 3
    /\ window = 1
    /\ Cardinality(WindowSwitches) = 1

(***************************************************************************)
(* C8: find_challenge_iframe tries its selectors in declared order, each   *)
(* under its own wait of self.timeout, stops at the first match and        *)
(* returns that element; when all miss it returns None and does not raise. *)
(***************************************************************************)
ChallengeLookups == SelectSeq(trace, LAMBDA e : Is(e, "wait_present", "challenge_iframe"))

C8_ChallengeSelectorsInOrder ==
    LET L == ChallengeLookups IN
    /\ Len(L) <= Len(CHALLENGE_IFRAME_SELECTORS)
    /\ \A i \in DOMAIN L :
          /\ L[i].sel = i
          /\ L[i].t = timeout
          /\ i < Len(L) => L[i].resp = "timeout"
    /\ challenge_iframe # NoneElem <=>
          (L # <<>> /\ L[Len(L)].resp = "match")
    /\ challenge_iframe # NoneElem =>
          challenge_iframe = Elem("challenge", Len(L), calls)
    /\ (L # <<>> /\ Len(L) < Len(CHALLENGE_IFRAME_SELECTORS) /\ L[Len(L)].resp = "timeout") =>
          /\ pc = "find_ch"
          /\ sel = Len(L) + 1
          /\ cause = "none"
    /\ (Len(L) = Len(CHALLENGE_IFRAME_SELECTORS) /\ L[Len(L)].resp = "timeout") =>
          /\ challenge_iframe = NoneElem
          /\ cause = "no_challenge"
          /\ pending = "false"
          /\ ~Has("switch_frame", "challenge")

\* the first two candidates missed and the third matched
C8_Witness ==
    /\ pc = "switch_ch"
    /\ Len(ChallengeLookups) = 3
    /\ challenge_iframe = Elem("challenge", 3, calls)

(***************************************************************************)
(* C9: once the mechanism is activated, solve_recaptcha returns true if    *)
(* the completion wait observes the verified marker within max_wait_time   *)
(* and false if the wait is exhausted; the wait has no other outcome.      *)
(***************************************************************************)
C9_CompletionWaitDecides ==
    \A i \in DOMAIN trace :
        Is(trace[i], "wait_present", "checked") =>
            /\ trace[i].t = max_wait_time
            /\ focus = "checkbox" \/ pc # "finally"
            /\ \E j \in 1..(i - 1) : Is(trace[j], "click", "buster") /\ trace[j].resp = "ok"
            /\ pending \in {"true", "false"}
            /\ pending = "true" <=> trace[i].resp = "match"
            /\ trace[i].resp = "match" => cause = "solved"
            /\ trace[i].resp = "timeout" => cause = "timed_out"
            /\ Exited => ret = pending

C9_Witness ==
    /\ pc = "done"
    /\ mode = "solve_recaptcha"
    /\ HasResp("wait_present", "checked", "timeout")
    /\ result = "false"
    /\ cause = "timed_out"

(***************************************************************************)
(* C10: a driver fault in attempt i of solve_all_recaptchas is an ordinary *)
(* failure: nothing is raised, and when i < max_attempts the inter-attempt *)
(* delay is slept and attempt i+1 is run.                                  *)
(***************************************************************************)
FaultedAttemptReturned ==
    /\ pc = "returned"
    /\ mode = "solve_all_recaptchas"
    /\ cause = "fault"

C10_FaultIsRetried ==
    /\ [](result # "raise")
    /\ [](FaultedAttemptReturned => ret = "false")
    /\ [][(FaultedAttemptReturned /\ attempts < max_attempts) =>
              /\ pc' = "all_loop"
              /\ retry_sleeps' = retry_sleeps + 1
              /\ UNCHANGED <<attempts, calls, result>>]_vars
    /\ [][(pc = "all_loop" /\ attempts < max_attempts) =>
              /\ pc' = "het_check"
              /\ calls' = calls + 1
              /\ attempts' = attempts + 1]_vars

\* the second attempt starts after the first one faulted
C10_Witness ==
    /\ mode = "solve_all_recaptchas"
    /\ pc = "all_loop"
    /\ cause = "fault"
    /\ calls = 1
    /\ retry_sleeps = 1
    /\ attempts < max_attempts

(***************************************************************************)
(* C11: the checkbox-context lookup of an attempt is performed with the    *)
(* focus at top level, whatever focus the caller left the session in.      *)
(* The code switches to top level only on exit, never on entry.            *)
(***************************************************************************)
C11_LookupAtTopLevel ==
    pc = "find_cb" => focus = "top"

(***************************************************************************)
(* C12: handle_extension_tabs runs exactly once per attempt, before the    *)
(* checkbox-context lookup, so k attempts perform exactly k checks.        *)
(***************************************************************************)
TabChecks == {i \in DOMAIN trace : Is(trace[i], "window_handles", "len")}

C12_TabCheckOncePerAttempt ==
    /\ tab_checks = (IF pc = "het_check" THEN calls - 1 ELSE calls)
    /\ TabChecks \subseteq {1}
    /\ (calls > 0 /\ pc \notin {"idle", "het_check"}) => TabChecks = {1}
    /\ mode = "solve_all_recaptchas" /\ pc = "done" /\ result = "false"
          => tab_checks = AttemptsDue

\* three attempts were run and three checks made
C12_Witness ==
    /\ mode = "solve_all_recaptchas"
    /\ pc = "done"
    /\ calls = 3
    /\ tab_checks = 3
    /\ Has("wait_present", "checkbox_iframe")

(***************************************************************************)
(* C13: find_recaptcha_checkbox_iframe makes exactly one wait of           *)
(* self.timeout on the checkbox-iframe selector and returns the element    *)
(* that wait yields; on timeout it returns None instead of raising.        *)
(***************************************************************************)
CheckboxLookups == SelectSeq(trace, LAMBDA e : Is(e, "wait_present", "checkbox_iframe"))

C13_CheckboxLookupOneWait ==
    LET W == CheckboxLookups IN
    /\ Len(W) <= 1
    /\ pc = "switch_cb" => Len(W) = 1
    /\ W = <<>> => checkbox_iframe = NoneElem
    /\ W # <<>> =>
          /\ W[1].t = timeout
          /\ W[1].resp = "match" => checkbox_iframe = Elem("checkbox", 1, calls)
          /\ W[1].resp # "match" => checkbox_iframe = NoneElem
          /\ W[1].resp = "timeout" =>
                /\ cause = "no_widget"
                /\ pending = "false"
                /\ pc \notin {"switch_cb", "cb_wait"}

C13_Witness ==
    /\ pc = "finally"
    /\ Len(CheckboxLookups) = 1
    /\ CheckboxLookups[1].resp = "timeout"
    /\ checkbox_iframe = NoneElem
    /\ cause = "no_widget"

(***************************************************************************)
(* C14: is_recaptcha_solved makes one immediate probe for the checked      *)
(* marker; it yields true exactly when the probe finds an element and      *)
(* false, without raising, when the probe reports none.                    *)
(***************************************************************************)
SolvedProbes == SelectSeq(trace, LAMBDA e : e.op = "find_element")

C14_SolvedProbe ==
    LET P == SolvedProbes IN
    /\ Len(P) <= 1
    /\ \A i \in DOMAIN P : P[i].target = "checked" /\ P[i].t = 0
    /\ cause = "already_solved" <=> HasResp("find_element", "checked", "match")
    /\ (trace # <<>> /\ trace[Len(trace)].op = "find_element") =>
          LET r == trace[Len(trace)].resp IN
          /\ r = "match" => (pc = "finally" /\ pending = "true")
          /\ r = "absent" => (pc = "to_top" /\ pending = "none" /\ cause = "none")
          /\ r = "fault" => (pc = "finally" /\ pending = "false" /\ cause = "fault")

\* the probe found nothing and the attempt goes on to the challenge
C14_Witness ==
    /\ pc = "to_top"
    /\ HasResp("find_element", "checked", "absent")
    /\ cause = "none"

(***************************************************************************)
(* C15: solve_all_recaptchas returns a SolveResult carrying the success    *)
(* flag and attemptsUsed, the number of attempts performed.                *)
(* The code returns the bare flag.                                         *)
(***************************************************************************)
SolveAllDone == mode = "solve_all_recaptchas" /\ pc = "done"

C15_ReturnsSolveResult ==
    SolveAllDone =>
        /\ DOMAIN SolveAllReturned = {"success", "attemptsUsed"}
        /\ SolveAllReturned.attemptsUsed = calls

\* C15 amended: the value returned is the boolean success flag alone, true
\* exactly when the last attempt performed returned true.
C15_ReturnsBareFlag ==
    SolveAllDone =>
        /\ DOMAIN SolveAllReturned = {"success"}
        /\ SolveAllReturned.success \in {"true", "false"}
        /\ SolveAllReturned.success = "true" <=> (calls > 0 /\ ret = "true")

\* false after two attempts: the count is not in the value
C15_Witness ==
    /\ SolveAllDone
    /\ SolveAllReturned = [success |-> "false"]
    /\ max_attempts = 2
    /\ calls = 2

(***************************************************************************)
(* C16: the checkbox is clicked only after the switch into the checkbox    *)
(* context located in this attempt and after the control was observed      *)
(* clickable; if it never becomes clickable the attempt returns false with *)
(* no click, no settle delay, no solved check and no challenge lookup.     *)
(***************************************************************************)
\* no context operation is recorded strictly between positions j and k
NoCtxBetween(j, k) == \A i \in CtxIdx : i <= j \/ i >= k

\* position j holds a successful switch into frame f located by this attempt
SwitchedInto(j, f) ==
    /\ Is(trace[j], "switch_frame", f)
    /\ trace[j].resp = "ok"
    /\ trace[j].gen = calls

C16_ClickOnlyWhenClickable ==
    /\ pc \in {"cb_wait", "cb_click"} => (focus = "checkbox" /\ checkbox_iframe.gen = calls)
    /\ \A k \in DOMAIN trace :
          Is(trace[k], "click", "checkbox") =>
              /\ k > 1
              /\ Is(trace[k - 1], "wait_clickable", "checkbox")
              /\ trace[k - 1].resp = "match"
              /\ \E j \in 1..(k - 1) : SwitchedInto(j, "checkbox") /\ NoCtxBetween(j, k)
    /\ HasResp("wait_clickable", "checkbox", "timeout") =>
          /\ ~Has("click", "checkbox")
          /\ ~Has("sleep", "post_click")
          /\ ~Has("find_element", "checked")
          /\ ChallengeStageOps = {}
          /\ pending = "false"
          /\ Exited => ret = "false"

C16_Witness ==
    /\ pc = "done"
    /\ HasResp("wait_clickable", "checkbox", "timeout")
    /\ cause = "not_clickable"
    /\ result = "false"

(***************************************************************************)
(* C17: in every attempt that clicks the checkbox the fixed settle delay   *)
(* elapses between the click and the solved check, and the check is made   *)
(* with focus still in the checkbox context.                               *)
(***************************************************************************)
IsSettle(e) == Is(e, "sleep", "post_click") /\ e.t = PostClickDelayMs

C17_SettleBeforeSolvedCheck ==
    /\ pc = "is_solved" => focus = "checkbox"
    /\ \A k \in DOMAIN trace :
          /\ (Is(trace[k], "click", "checkbox") /\ trace[k].resp = "ok") =>
                (k < Len(trace) /\ IsSettle(trace[k + 1]))
          /\ trace[k].op = "find_element" =>
                /\ k > 2
                /\ IsSettle(trace[k - 1])
                /\ Is(trace[k - 2], "click", "checkbox")
                /\ trace[k - 2].resp = "ok"
                /\ \E j \in 1..(k - 1) : SwitchedInto(j, "checkbox") /\ NoCtxBetween(j, k)

\* the click and the delay are done, the solved check is next
C17_Witness ==
    /\ pc = "is_solved"
    /\ trace # <<>>
    /\ IsSettle(trace[Len(trace)])
    /\ focus = "checkbox"

(***************************************************************************)
(* C18: after a negative solved check the focus is switched back to top    *)
(* level before the challenge lookup, so every candidate of the lookup is  *)
(* searched at top level, never from inside the checkbox context.          *)
(***************************************************************************)
C18_ChallengeLookupAtTopLevel ==
    /\ pc = "find_ch" => focus = "top"
    /\ \A k \in DOMAIN trace :
          Is(trace[k], "wait_present", "challenge_iframe") =>
              /\ k > 2
              /\ IF trace[k].sel = 1
                 THEN /\ trace[k - 1].op = "default_content"
                      /\ trace[k - 1].resp = "ok"
                      /\ Is(trace[k - 2], "find_element", "checked")
                      /\ trace[k - 2].resp = "absent"
                 ELSE /\ Is(trace[k - 1], "wait_present", "challenge_iframe")
                      /\ trace[k - 1].sel = trace[k].sel - 1

\* the last candidate is about to be searched, at top level
C18_Witness ==
    /\ pc = "find_ch"
    /\ sel = 3
    /\ Len(ChallengeLookups) = 2
    /\ focus = "top"

(***************************************************************************)
(* C19: when no candidate finds the challenge context the attempt returns  *)
(* false without a switch into a frame, activation or completion wait, and *)
(* solve_all_recaptchas retries it like any failed attempt.                *)
(***************************************************************************)
ChallengeMissed ==
    /\ Len(ChallengeLookups) = Len(CHALLENGE_IFRAME_SELECTORS)
    /\ ChallengeLookups[Len(ChallengeLookups)].resp = "timeout"

C19_MissedChallengeState ==
    ChallengeMissed =>
        /\ cause = "no_challenge"
        /\ pending = "false"
        /\ challenge_iframe = NoneElem
        /\ ~Has("switch_frame", "challenge") /\ ~Has("switch_frame", "none")
        /\ Cardinality({i \in DOMAIN trace : trace[i].op = "switch_frame"}) = 1
        /\ \A i \in DOMAIN trace : trace[i].target # "buster"
        /\ ~Has("sleep", "pre_activation")
        /\ ~Has("wait_present", "checked")
        /\ Exited => ret = "false"

C19_MissingChallengeAborts ==
    /\ []C19_MissedChallengeState
    /\ [][(pc = "returned" /\ mode = "solve_all_recaptchas" /\ ChallengeMissed
             /\ attempts < max_attempts) =>
              /\ pc' = "all_loop"
              /\ retry_sleeps' = retry_sleeps + 1
              /\ result' = result]_vars

\* the attempt failed on the missing challenge and the retry delay was slept
C19_Witness ==
    /\ mode = "solve_all_recaptchas"
    /\ pc = "all_loop"
    /\ ChallengeMissed
    /\ cause = "no_challenge"
    /\ attempts < max_attempts
    /\ retry_sleeps = calls

(***************************************************************************)
(* C20: the activation trigger runs only after the switch into the         *)
(* challenge context found in this attempt; when activation fails the      *)
(* attempt returns false with no further switch into the checkbox context  *)
(* and no completion wait.                                                 *)
(***************************************************************************)
BusterOps == SelectSeq(trace, LAMBDA e : e.target = "buster")

\* activate_buster_extension ran out of candidates
ActivationExhausted ==
    /\ BusterOps # <<>>
    /\ BusterOps[Len(BusterOps)].sel = Len(BUSTER_BUTTON_SELECTORS)
    /\ BusterOps[Len(BusterOps)].resp = "timeout"

C20_ActivationInChallengeContext ==
    /\ pc \in {"bb_wait", "bb_click"} =>
          /\ focus = "challenge"
          /\ challenge_iframe # NoneElem
          /\ challenge_iframe.gen = calls
    /\ \A k \in DOMAIN trace :
          trace[k].target = "buster" =>
              \E j \in 1..(k - 1) : SwitchedInto(j, "challenge") /\ NoCtxBetween(j, k)
    /\ ActivationExhausted =>
          /\ cause = "activation_failed"
          /\ pending = "false"
          /\ Cardinality({i \in DOMAIN trace : Is(trace[i], "switch_frame", "checkbox")}) = 1
          /\ ~Has("wait_present", "checked")
          /\ Exited => ret = "false"

C20_Witness ==
    /\ pc = "done"
    /\ ActivationExhausted
    /\ cause = "activation_failed"
    /\ result = "false"

(***************************************************************************)
(* C21: after a successful activation the context operations before the    *)
(* completion wait are a switch to top level and then a switch into the    *)
(* checkbox context; the wait polls only with focus in the checkbox        *)
(* context.                                                                *)
(***************************************************************************)
C21_WaitInCheckboxContext ==
    /\ pc = "wait_sol" => (focus = "checkbox" /\ checkbox_iframe.gen = calls)
    /\ \A k \in DOMAIN trace :
          Is(trace[k], "wait_present", "checked") =>
              /\ k > 3
              /\ SwitchedInto(k - 1, "checkbox")
              /\ trace[k - 2].op = "default_content"
              /\ trace[k - 2].resp = "ok"
              /\ Is(trace[k - 3], "click", "buster")
              /\ trace[k - 3].resp = "ok"

\* both switches are done and the completion wait is next
C21_Witness ==
    /\ pc = "wait_sol"
    /\ focus = "checkbox"
    /\ HasResp("click", "buster", "ok")
    /\ SwitchedInto(Len(trace), "checkbox")

(***************************************************************************)
(* C22: activate_buster_extension never clicks the control unless it was   *)
(* first observed clickable and the fixed pre-activation delay has then    *)
(* elapsed: the order is clickable-wait, delay, click.                     *)
(***************************************************************************)
IsPreActivationDelay(e) == Is(e, "sleep", "pre_activation") /\ e.t = BusterDelayMs

C22_WaitDelayClick ==
    \A k \in DOMAIN trace :
        /\ Is(trace[k], "click", "buster") =>
              /\ k > 2
              /\ IsPreActivationDelay(trace[k - 1])
              /\ Is(trace[k - 2], "wait_clickable", "buster")
              /\ trace[k - 2].resp = "match"
              /\ trace[k - 2].sel = trace[k].sel
        /\ Is(trace[k], "sleep", "pre_activation") =>
              /\ k > 1
              /\ Is(trace[k - 1], "wait_clickable", "buster")
              /\ trace[k - 1].resp = "match"

\* the control was seen clickable, the delay elapsed, the click is next
C22_Witness ==
    /\ pc = "bb_click"
    /\ trace # <<>>
    /\ IsPreActivationDelay(trace[Len(trace)])
    /\ ~Has("click", "buster")

(***************************************************************************)
(* C24: when the restoring switch of the finally clause itself raises, the *)
(* fault is swallowed and solve_recaptcha returns the boolean determined   *)
(* before it; the release step never replaces the outcome.                 *)
(***************************************************************************)
RestoreFaulted ==
    /\ Exited
    /\ trace # <<>>
    /\ trace[Len(trace)].op = "default_content"
    /\ trace[Len(trace)].resp = "fault"

C24_RestoreFaultSwallowed ==
    /\ Exited => (ret = pending /\ ret \in {"true", "false"})
    /\ (mode = "solve_recaptcha" /\ pc = "done") => result = pending
    /\ RestoreFaulted =>
          /\ pending = "true" <=> cause \in {"already_solved", "solved"}
          /\ mode = "solve_all_recaptchas" => result # "raise"

\* the marker was observed, the restore faulted, true came back all the same
C24_Witness ==
    /\ RestoreFaulted
    /\ mode = "solve_recaptcha"
    /\ pc = "done"
    /\ cause = "solved"
    /\ result = "true"

(***************************************************************************)
(* C25: frame handles are never cached across invocations: every frame     *)
(* switch of an attempt uses a handle located by a lookup of that attempt, *)
(* and each attempt re-locates the checkbox context before entering it.    *)
(***************************************************************************)
\* a lookup of this attempt matched and yielded the handle el
LocatedNow(el, k) ==
    \E j \in 1..(k - 1) :
        /\ trace[j].op = "wait_present"
        /\ trace[j].target = (IF el.frame = "checkbox" THEN "checkbox_iframe" ELSE "challenge_iframe")
        /\ trace[j].resp = "match"
        /\ trace[j].sel = el.by
        /\ trace[j].gen = el.gen

C25_HandlesLocatedPerAttempt ==
    /\ checkbox_iframe # NoneElem =>
          (checkbox_iframe.gen = calls /\ LocatedNow(checkbox_iframe, Len(trace) + 1))
    /\ challenge_iframe # NoneElem =>
          (challenge_iframe.gen = calls /\ LocatedNow(challenge_iframe, Len(trace) + 1))
    /\ \A k \in DOMAIN trace :
          trace[k].op = "switch_frame" =>
              /\ trace[k].target \in {"checkbox", "challenge"}
              /\ trace[k].gen = calls
              /\ LocatedNow(Elem(trace[k].target, trace[k].sel, trace[k].gen), k)

\* the second attempt entered the checkbox frame it had just located
C25_Witness ==
    /\ mode = "solve_all_recaptchas"
    /\ calls = 2
    /\ pc = "cb_wait"
    /\ checkbox_iframe = Elem("checkbox", 1, 2)
    /\ SwitchedInto(Len(trace), "checkbox")

(***************************************************************************)
(* C26: solve_recaptcha returns true only if, in that attempt, the         *)
(* verified marker was observed with focus in the checkbox context, by the *)
(* solved check or by the completion wait; every other path returns false. *)
(***************************************************************************)
MarkerObserved ==
    \E k \in DOMAIN trace :
        /\ trace[k].target = "checked"
        /\ trace[k].op \in {"find_element", "wait_present"}
        /\ trace[k].resp = "match"
        /\ trace[k].gen = calls
        /\ \E j \in 1..(k - 1) : SwitchedInto(j, "checkbox") /\ NoCtxBetween(j, k)

C26_TrueOnlyWhenMarkerObserved ==
    /\ pending = "true" <=> MarkerObserved
    /\ Exited =>
          /\ ret \in {"true", "false"}
          /\ ret = "true" <=> MarkerObserved
          /\ cause \in {"no_widget", "not_clickable", "no_challenge",
                        "activation_failed", "timed_out", "fault"} => ret = "false"
    /\ (mode = "solve_recaptcha" /\ pc = "done") => (result = "true" <=> MarkerObserved)

\* solved by the mechanism and reported true
C26_Witness ==
    /\ mode = "solve_recaptcha"
    /\ pc = "done"
    /\ result = "true"
    /\ HasResp("wait_present", "checked", "match")
    /\ MarkerObserved

(***************************************************************************)
(* C23: activate_buster_extension tries its selectors in declared order,   *)
(* clicks the first candidate that becomes clickable and returns true      *)
(* without trying later candidates; it returns false, without raising and  *)
(* without any click or delay, when no candidate becomes clickable.        *)
(* A click that raises TimeoutException is caught by the loop's handler    *)
(* and the next candidate is tried after the click.                        *)
(***************************************************************************)
BusterWaits == SelectSeq(trace, LAMBDA e : Is(e, "wait_clickable", "buster"))
BusterClicks == {i \in DOMAIN trace : Is(trace[i], "click", "buster")}

C23_FirstClickableCandidateWins ==
    LET W == BusterWaits IN
    /\ Len(W) <= Len(BUSTER_BUTTON_SELECTORS)
    /\ \A i \in DOMAIN W :
          /\ W[i].sel = i
          /\ W[i].t = timeout
          /\ W[i].resp = "match" => i = Len(W)
    /\ HasResp("click", "buster", "ok") => pc \notin {"bb_wait", "bb_click"}
    /\ (Len(W) = Len(BUSTER_BUTTON_SELECTORS) /\ \A i \in DOMAIN W : W[i].resp = "timeout") =>
          /\ BusterClicks = {}
          /\ ~Has("sleep", "pre_activation")
          /\ cause = "activation_failed"
          /\ pending = "false"

(***************************************************************************)
(* C27: each attempt dispatches at most one click on the checkbox and at   *)
(* most one click on the mechanism's control, for every combination of     *)
(* driver responses.  The handler of the selector loop also catches a      *)
(* TimeoutException raised by the click, and the loop clicks again.        *)
(***************************************************************************)
CheckboxClicks == {i \in DOMAIN trace : Is(trace[i], "click", "checkbox")}

C27_AtMostOneClickEach ==
    /\ Cardinality(CheckboxClicks) <= 1
    /\ Cardinality(BusterClicks) <= 1

(***************************************************************************)
(* C28: solve_all_recaptchas terminates for every integer max_attempts     *)
(* when every driver wait terminates: the attempt counter grows by one per *)
(* attempt up to max_attempts, and for max_attempts <= 0 no attempt is     *)
(* run, the driver is not touched and false is returned.                   *)
(***************************************************************************)
NoAttemptsAsked == mode = "solve_all_recaptchas" /\ max_attempts <= 0

C28_SolveAllTerminates ==
    /\ <>(pc = "done")
    /\ [](mode = "solve_all_recaptchas" =>
            /\ attempts >= 0
            /\ attempts <= AttemptsDue
            /\ pc = "done" => result \in {"true", "false"})
    /\ [](NoAttemptsAsked =>
            /\ calls = 0
            /\ tab_checks = 0
            /\ trace = <<>>
            /\ pc \in {"all_loop", "done"}
            /\ pc = "done" => result = "false")
    /\ [][(mode = "solve_all_recaptchas" /\ calls' # calls) =>
              (attempts' = attempts + 1 /\ attempts' <= max_attempts)]_vars
    /\ [][mode = "solve_all_recaptchas" => attempts' >= attempts]_vars
    /\ [][NoAttemptsAsked => UNCHANGED driver]_vars

\* a negative budget: false came back and nothing was run
C28_Witness ==
    /\ mode = "solve_all_recaptchas"
    /\ max_attempts = -1
    /\ pc = "done"
    /\ result = "false"
    /\ calls = 0
    /\ trace = <<>>

(***************************************************************************)
(* C29: the budget of the completion wait is the max_wait_time given to    *)
(* solve_recaptcha, independent of the constructor's timeout, which bounds *)
(* every other wait; every attempt run by solve_all_recaptchas uses the    *)
(* default completion budget of 30.                                        *)
(***************************************************************************)
C29_CompletionBudget ==
    /\ \A k \in DOMAIN trace :
          /\ Is(trace[k], "wait_present", "checked") => trace[k].t = max_wait_time
          /\ (trace[k].op \in {"wait_present", "wait_clickable"}
                /\ ~Is(trace[k], "wait_present", "checked")) => trace[k].t = timeout
    /\ (mode = "solve_all_recaptchas" /\ InAttempt) => max_wait_time = DefaultMaxWait
    /\ mode = "solve_all_recaptchas" =>
          \A k \in DOMAIN trace :
              Is(trace[k], "wait_present", "checked") => trace[k].t = DefaultMaxWait

\* a solver built with timeout 10 waits 30 for the solution in its second attempt
C29_Witness ==
    /\ mode = "solve_all_recaptchas"
    /\ timeout = TestTimeout
    /\ calls = 2
    /\ \E k \in DOMAIN trace :
          Is(trace[k], "wait_present", "checked") /\ trace[k].t = DefaultMaxWait

====
